---- MODULE Spec2Model ----
(***************************************************************************)
(* A model of the training orchestration core of CausalTransformerBase     *)
(* (src/Trainer.py): the learning-rate schedule built by get_scheduler,    *)
(* the batch preparer Trainer.prepare_data, and the run loop               *)
(* Trainer.train_model_ with save_model / load_checkpoint.                 *)
(*                                                                         *)
(* The specifications of the module:                                       *)
(*   SpecSched  evaluates the schedule lambda on bounded (W, T, step);     *)
(*   SpecPrep   runs prepare_data and the label masking on bounded batches;*)
(*   Spec       runs the designated process's run loop, with interruption  *)
(*              and resumption from the stored checkpoint (FairSpec adds   *)
(*              the progress of the loop);                                 *)
(*   SpecGroup  runs train_model_ in every process of a group, with the    *)
(*              collectives that couple them;                              *)
(*   SpecSave   runs save_model artifact by artifact, with interruption;   *)
(*   SpecCtor   runs Trainer constructions (fresh or from a checkpoint)     *)
(*              in one process, with init_distributed and the environment; *)
(*   SpecExec   runs the body of the training loop statement by statement, *)
(*              with an exception in the forward, loss or backward part;   *)
(*   SpecLog    runs the loss accumulation and the metric records of the   *)
(*              run loop, with interruption and resumption.                *)
(* Each specification leaves the variables of the others at their initial  *)
(* values.                                                                 *)
(*                                                                         *)
(* Python floats are modelled as exact rationals <<n, d>> in lowest terms  *)
(* with d > 0; every value the properties compare is computed by the same  *)
(* divisions the code performs.                                            *)
(***************************************************************************)
EXTENDS Integers, Sequences, FiniteSets

VARIABLES
    \* ---- SpecSched: one evaluation of the schedule lambda
    warmup_in,      \* warmup_steps given to get_scheduler
    total_in,       \* total_steps given to get_scheduler
    step_in,        \* the step the lambda was last evaluated at
    mult_out,       \* <<>> before any evaluation, else <<multiplier>>
    \* ---- SpecPrep: one call of prepare_data followed by the label masking
    batch,          \* list of records [input_ids, attention_mask]
    model_max_length, \* tokenizer.model_max_length
    prepared,       \* result of prepare_data (and the pre-shift rows), or not present
    loss_labels,    \* labels fed to the loss (after torch.where), <<>> before
    prep_pc,        \* "raw" -> "prepared" -> "masked"
    \* ---- Spec: the designated process's trainer, its run loop and the disk
    self,           \* the Trainer's configuration fields, step_ckpt and wandb_id
    model,          \* model parameters: the optimizer updates <<step, lr>> applied to them
    optimizer,      \* AdamW: param_groups[0]['lr'], ['initial_lr'], number of updates
    scheduler,      \* LambdaLR: last_epoch, base_lrs[0], _last_lr[0]
    dist_initialized, \* dist.is_initialized() in the current process
    disk,           \* the checkpoint directory model_save_path
    pc,             \* "constructed", "loop", "done", "failed", "stopped"
    step,           \* train_model_'s loop variable step
    it,             \* number of batches the loop has taken from data_loader
    n_batches,      \* number of batches data_loader yields
    batch_loss,     \* train_model_'s batch_loss
    grad_scaler,    \* torch.amp.GradScaler: scale and growth tracker
    wandb_last,     \* the last record given to wandb.log, if any
    last_update,    \* history: the last executed optimizer-step phase, over all runs
    run,            \* history: number of resumptions so far
    clean,          \* history: every resumption so far followed a stop right after a save
    \* ---- SpecGroup: train_model_ in each process of one group
    group_cfg,      \* the configuration every process was constructed with
    proc_pc,        \* rank -> position in train_model_
    proc_it,        \* rank -> number of batches the process's loop has taken
    proc_coll,      \* rank -> number of collective operations the process has entered
    wandb_runs,     \* ranks whose process holds an open wandb run (wandb.run)
    ckpt_writes,    \* <<rank, step>> of every checkpoint written to model_save_path
    log_records,    \* <<rank, step>> of every record given to wandb.log
    \* ---- SpecSave: save_model, one artifact at a time
    save_mem,       \* the trainer in memory: self, model, optimizer, scheduler, step
    save_disk,      \* artifact name -> <<>> (no file) or <<content>>
    save_pc,        \* [at |-> "idle" / "writing" / "interrupted", next |-> artifact index]
    save_hist,      \* history: saves completed at the current step, the disk after the
                    \* first of them, and the disk when the running save began
    \* ---- SpecCtor: Trainer constructions in one process
    environ,        \* the identifiers present in os.environ
    dist_group,     \* torch.distributed in this process: is_initialized(), and history:
                    \* groups created, barriers of line 54, calls on an existing group
    ctor,           \* the running construction: arguments, objects created so far,
                    \* and history: whether it found the group established
    ctor_pc,        \* "none", "build", "device", "optimizer", "constructed", "failed"
    \* ---- SpecExec: the loop body, one statement at a time
    exec,           \* self, model, optimizer, scheduler, grad_scaler, gradients, disk,
                    \* the locals of the iteration, and where an exception was raised
    exec_pc,        \* the statement to run next, or "done" / "failed"
    exec_trace,     \* history: the phases executed so far in the current iteration
    exec_prev,      \* history: model, optimizer, scheduler and disk as the previous
                    \* iteration left them
    \* ---- SpecLog: the loss accumulation and the metric records of the run loop
    log_self,       \* log_steps, num_steps, num_save_steps and step_ckpt of the trainer
    log_pc,         \* "constructed", "loop", "done", "stopped"
    log_it,         \* number of batches the loop has taken from data_loader
    log_batch_loss, \* train_model_'s batch_loss
    log_terms,      \* history: the losses added to batch_loss since it was last 0
    log_emitted,    \* history: the last record given to wandb.log, with its terms
    log_saved,      \* <<>> or <<step_ckpt of the checkpoint on disk>>
    log_run         \* history: number of resumptions so far

sched_vars == <<warmup_in, total_in, step_in, mult_out>>
prep_vars == <<batch, model_max_length, prepared, loss_labels, prep_pc>>
run_vars == <<self, model, optimizer, scheduler, dist_initialized, disk, pc, step, it,
              n_batches, batch_loss, grad_scaler, wandb_last, last_update, run, clean>>
group_vars == <<group_cfg, proc_pc, proc_it, proc_coll, wandb_runs, ckpt_writes,
                log_records>>
save_vars == <<save_mem, save_disk, save_pc, save_hist>>
ctor_vars == <<environ, dist_group, ctor, ctor_pc>>
exec_vars == <<exec, exec_pc, exec_trace, exec_prev>>
log_vars == <<log_self, log_pc, log_it, log_batch_loss, log_terms, log_emitted, log_saved,
              log_run>>
ext_vars == <<group_vars, save_vars, ctor_vars, exec_vars, log_vars>>
outside_group == <<sched_vars, prep_vars, run_vars, save_vars, ctor_vars, exec_vars, log_vars>>
outside_save == <<sched_vars, prep_vars, run_vars, group_vars, ctor_vars, exec_vars, log_vars>>
outside_ctor == <<sched_vars, prep_vars, run_vars, group_vars, save_vars, exec_vars, log_vars>>
outside_exec == <<sched_vars, prep_vars, run_vars, group_vars, save_vars, ctor_vars, log_vars>>
outside_log == <<sched_vars, prep_vars, run_vars, group_vars, save_vars, ctor_vars, exec_vars>>
vars == <<sched_vars, prep_vars, run_vars, ext_vars>>

\* ------------------------------------------------------------------ bounds
MaxWarmup == 3
MaxTotal == 5
StepsPastTotal == 2
MaxBatch == 2
MaxRecLen == 5
MaxModelLen == 4
MaxRunWarmup == 2
MaxRunSteps == 3
MaxSaveSteps == 2
MaxLogSteps == 1
MaxLoss == 1
MaxResumes == 1
MaxProcs == 2
MaxGroupSteps == 2
MaxGroupInterval == 2
MaxSaveRunSteps == 3
MaxSavesPerStep == 2
MaxCtorRequests == 2
MaxExecSteps == 2
MaxLogInterval == 2
MaxLogRunSteps == 3
MaxLogLoss == 2

\* ------------------------------------------------------ program constants
PadTokenId == 2
IgnoreIndex == -100
InitScale == 65536
GrowthInterval == 2000

\* ------------------------------------------------------- rational numbers
Abs(x) == IF x < 0 THEN -x ELSE x

RECURSIVE GCD(_, _)
GCD(a, b) == IF b = 0 THEN a ELSE GCD(b, a % b)

\* n/d in lowest terms with a positive denominator (d # 0)
Frac(n, d) ==
    LET g == GCD(Abs(n), Abs(d))
        s == IF d < 0 THEN -1 ELSE 1
    IN  <<(s * n) \div g, (s * d) \div g>>

RatOfInt(n) == <<n, 1>>
RatAdd(a, b) == Frac(a[1] * b[2] + b[1] * a[2], a[2] * b[2])
RatSub(a, b) == Frac(a[1] * b[2] - b[1] * a[2], a[2] * b[2])
RatMul(a, b) == Frac(a[1] * b[1], a[2] * b[2])
RatLt(a, b) == a[1] * b[2] < b[1] * a[2]
RatMax(a, b) == IF RatLt(a, b) THEN b ELSE a

\* ------------------------------------------------ get_scheduler (69-80)
\* A slip of the decay branch: the span is taken from step 0, not from the
\* end of the warmup.
lr_lambda_decay_from_zero(at_step, warmup_steps, total_steps) ==
    IF at_step < warmup_steps
    THEN Frac(at_step, warmup_steps)
    ELSE RatSub(RatOfInt(1), Frac(at_step - warmup_steps, total_steps))

\* A variant of the warmup branch that never yields a zero rate: the ramp
\* counts from step + 1.
lr_lambda_warmup_plus_one(at_step, warmup_steps, total_steps) ==
    IF at_step < warmup_steps
    THEN Frac(at_step + 1, warmup_steps)
    ELSE RatSub(RatOfInt(1), Frac(at_step - warmup_steps, total_steps - warmup_steps))

\* lr_lambda of get_scheduler: Python's true division, no clamp.
\* Defined for warmup_steps < total_steps (otherwise the decay branch divides
\* by zero).
lr_lambda(at_step, warmup_steps, total_steps) ==
    IF at_step < warmup_steps
    THEN Frac(at_step, warmup_steps)
    ELSE RatSub(RatOfInt(1), Frac(at_step - warmup_steps, total_steps - warmup_steps))

\* ------------------------------------------------------------ SpecSched
\* The (warmup_steps, total_steps) pairs the schedule is built from: every
\* pair with 0 <= W < T within the bounds, and the pair W = 10, T = 100.
SchedulePairs ==
    {p \in (0..MaxWarmup) \X (1..MaxTotal) : p[1] < p[2]} \cup {<<10, 100>>}

RunIdle ==
    /\ self = [present |-> FALSE]
    /\ model = <<>>
    /\ optimizer = [present |-> FALSE]
    /\ scheduler = [present |-> FALSE]
    /\ dist_initialized = FALSE
    /\ disk = [present |-> FALSE]
    /\ pc = "idle"
    /\ step = 0
    /\ it = 0
    /\ n_batches = 0
    /\ batch_loss = <<0, 1>>
    /\ grad_scaler = [present |-> FALSE]
    /\ wandb_last = [present |-> FALSE]
    /\ last_update = [present |-> FALSE]
    /\ run = 0
    /\ clean = TRUE

PrepIdle ==
    /\ batch = <<>>
    /\ model_max_length = 0
    /\ prepared = [present |-> FALSE]
    /\ loss_labels = <<>>
    /\ prep_pc = "idle"

SchedIdle ==
    /\ warmup_in = 0
    /\ total_in = 1
    /\ step_in = 0
    /\ mult_out = <<>>

GroupIdle ==
    /\ group_cfg = [present |-> FALSE]
    /\ proc_pc = <<>>
    /\ proc_it = <<>>
    /\ proc_coll = <<>>
    /\ wandb_runs = {}
    /\ ckpt_writes = {}
    /\ log_records = {}

SaveIdle ==
    /\ save_mem = [present |-> FALSE]
    /\ save_disk = <<>>
    /\ save_pc = [at |-> "off", next |-> 0]
    /\ save_hist = [present |-> FALSE]

CtorIdle ==
    /\ environ = {}
    /\ dist_group = [present |-> FALSE]
    /\ ctor = [present |-> FALSE]
    /\ ctor_pc = "off"

ExecIdle ==
    /\ exec = [present |-> FALSE]
    /\ exec_pc = "off"
    /\ exec_trace = <<>>
    /\ exec_prev = [present |-> FALSE]

LogIdle ==
    /\ log_self = [present |-> FALSE]
    /\ log_pc = "off"
    /\ log_it = 0
    /\ log_batch_loss = <<0, 1>>
    /\ log_terms = <<>>
    /\ log_emitted = [present |-> FALSE]
    /\ log_saved = <<>>
    /\ log_run = 0

ExtIdle == GroupIdle /\ SaveIdle /\ CtorIdle /\ ExecIdle /\ LogIdle
OutsideGroupIdle == SchedIdle /\ PrepIdle /\ RunIdle /\ SaveIdle /\ CtorIdle /\ ExecIdle /\ LogIdle
OutsideSaveIdle == SchedIdle /\ PrepIdle /\ RunIdle /\ GroupIdle /\ CtorIdle /\ ExecIdle /\ LogIdle
OutsideCtorIdle == SchedIdle /\ PrepIdle /\ RunIdle /\ GroupIdle /\ SaveIdle /\ ExecIdle /\ LogIdle
OutsideExecIdle == SchedIdle /\ PrepIdle /\ RunIdle /\ GroupIdle /\ SaveIdle /\ CtorIdle /\ LogIdle
OutsideLogIdle == SchedIdle /\ PrepIdle /\ RunIdle /\ GroupIdle /\ SaveIdle /\ CtorIdle /\ ExecIdle

InitSched ==
    /\ \E p \in SchedulePairs : warmup_in = p[1] /\ total_in = p[2]
    /\ step_in = 0
    /\ mult_out = <<>>
    /\ PrepIdle
    /\ RunIdle
    /\ ExtIdle

\* LambdaLR calls lr_lambda with the epoch it was given (80).
EvalSchedule ==
    /\ \E s \in 0..(total_in + StepsPastTotal) :
          /\ step_in' = s
          /\ mult_out' = <<lr_lambda(s, warmup_in, total_in)>>
    /\ UNCHANGED <<warmup_in, total_in, prep_vars, run_vars, ext_vars>>

NextSched == EvalSchedule

SpecSched == InitSched /\ [][NextSched]_vars

\* ----------------------------------------------------- claims C4 and C5
Evaluated == mult_out # <<>>
Multiplier == mult_out[1]

\* The multiplier as section 4.2 of the specification writes it.
ClampedMultiplier(at_step, W, T) ==
    IF at_step < W
    THEN Frac(at_step, W)
    ELSE RatMax(RatOfInt(0), RatSub(RatOfInt(1), Frac(at_step - W, T - W)))

ScenarioValues ==
    (warmup_in = 10 /\ total_in = 100) =>
        /\ step_in = 5 => Multiplier = <<1, 2>>
        /\ step_in = 10 => Multiplier = <<1, 1>>
        /\ step_in = 55 => Multiplier = <<1, 2>>
        /\ step_in = 100 => Multiplier = <<0, 1>>

\* C4 as stated: for all W < T and EVERY step >= 0 the multiplier is step/W
\* below W and max(0, 1 - (step-W)/(T-W)) from W on, hence never negative,
\* with the values 0.5, 1.0, 0.5, 0.0 at steps 5, 10, 55, 100 for W=10, T=100.
C4_Original ==
    Evaluated =>
        /\ Multiplier = ClampedMultiplier(step_in, warmup_in, total_in)
        /\ ~RatLt(Multiplier, RatOfInt(0))
        /\ ScenarioValues

\* C4 amended: the same for every step with 0 <= step <= T; past T the code
\* applies no clamp and the multiplier is 1 - (step-W)/(T-W), negative.
C4_MultiplierUpToTotal ==
    Evaluated =>
        /\ step_in <= total_in =>
              /\ Multiplier = ClampedMultiplier(step_in, warmup_in, total_in)
              /\ ~RatLt(Multiplier, RatOfInt(0))
        /\ step_in > total_in =>
              /\ Multiplier = RatSub(RatOfInt(1),
                                     Frac(step_in - warmup_in, total_in - warmup_in))
              /\ RatLt(Multiplier, RatOfInt(0))
        /\ ScenarioValues

C4_Witness ==
    /\ Evaluated
    /\ warmup_in = 10 /\ total_in = 100 /\ step_in = 55
    /\ Multiplier = <<1, 2>>

\* C5 as stated: for all W < T, W = 0 included, multiplier(0) = 0,
\* multiplier(W) = 1, multiplier(T) = 0, and the warmup branch step/W and the
\* decay branch agree at step W.
C5_Original ==
    Evaluated =>
        /\ step_in = 0 => Multiplier = <<0, 1>>
        /\ step_in = warmup_in => Multiplier = <<1, 1>>
        /\ step_in = total_in => Multiplier = <<0, 1>>
        /\ (step_in = warmup_in /\ warmup_in > 0) =>
              Multiplier = Frac(step_in, warmup_in)

\* C5 amended: for 1 <= W < T, multiplier(0) = 0, multiplier(W) = 1,
\* multiplier(T) = 0 and the two branches agree at W; for W = 0 there is no
\* warmup branch and multiplier(0) = multiplier(W) = 1, multiplier(T) = 0.
C5_Endpoints ==
    Evaluated =>
        /\ (step_in = 0 /\ warmup_in >= 1) => Multiplier = <<0, 1>>
        /\ (step_in = 0 /\ warmup_in = 0) => Multiplier = <<1, 1>>
        /\ step_in = warmup_in => Multiplier = <<1, 1>>
        /\ step_in = total_in => Multiplier = <<0, 1>>
        /\ (step_in = warmup_in /\ warmup_in >= 1) =>
              Multiplier = Frac(step_in, warmup_in)

C5_Witness ==
    /\ Evaluated
    /\ warmup_in = 2 /\ total_in = 5 /\ step_in = 2
    /\ Multiplier = <<1, 1>>

\* ------------------------------------------- Trainer.prepare_data (239-269)
Min(a, b) == IF a < b THEN a ELSE b
MaxOf(S) == CHOOSE m \in S : \A x \in S : x <= m
Repeat(x, n) == [i \in 1..n |-> x]

\* np.random.randint(low, high): the integers low <= x < high (247).
RandintRange(low, high) == low..(high - 1)

\* A window computed without the model's maximum length.
max_length_uncapped(b, model_max) ==
    MaxOf({Len(b[i].input_ids) : i \in 1..Len(b)})

\* max_length = min(max(len(x["input_ids"])), tokenizer.model_max_length) (241)
max_length_of(b, model_max) ==
    Min(MaxOf({Len(b[i].input_ids) : i \in 1..Len(b)}), model_max)

\* The start offsets line 247 can draw for a record of length len.
StartOffsets(len, max_length) ==
    IF len > max_length THEN RandintRange(0, len - max_length) ELSE {0}

\* Lines 246-249: the random window of a record longer than max_length.
RandomWindow(rec, max_length, start) ==
    IF Len(rec.input_ids) > max_length
    THEN [input_ids |-> SubSeq(rec.input_ids, start + 1, start + max_length),
          attention_mask |-> SubSeq(rec.attention_mask, start + 1, start + max_length)]
    ELSE rec

\* A stop pad appended with mask value true.
AppendStopPad_attended(rec) ==
    [input_ids |-> Append(rec.input_ids, PadTokenId),
     attention_mask |-> Append(rec.attention_mask, 1)]

\* Lines 252-253: one pad token, unmasked, after the content.
AppendStopPad(rec) ==
    [input_ids |-> Append(rec.input_ids, PadTokenId),
     attention_mask |-> Append(rec.attention_mask, 0)]

\* Lines 256-257: right-pad to max_length + 1; the mask becomes boolean.
PadToLength(rec, max_length) ==
    LET ids == rec.input_ids \o Repeat(PadTokenId, max_length + 1 - Len(rec.input_ids))
        msk == rec.attention_mask \o Repeat(0, max_length + 1 - Len(rec.attention_mask))
    IN  [input_ids |-> ids,
         attention_mask |-> [i \in 1..Len(msk) |-> msk[i] # 0]]

\* Lines 260-262: labels = input_ids[1:], input_ids and mask lose the last column.
ShiftSplit(rec) ==
    [input_ids |-> SubSeq(rec.input_ids, 1, Len(rec.input_ids) - 1),
     attention_mask |-> SubSeq(rec.attention_mask, 1, Len(rec.attention_mask) - 1),
     labels |-> SubSeq(rec.input_ids, 2, Len(rec.input_ids))]

\* The body of the loop over the batch for one record (244-262); pre_shift
\* keeps the padded row as it is before the split.
PrepareRecord(rec, max_length, start) ==
    LET padded == PadToLength(AppendStopPad(RandomWindow(rec, max_length, start)),
                              max_length)
        split == ShiftSplit(padded)
    IN  [input_ids |-> split.input_ids,
         attention_mask |-> split.attention_mask,
         labels |-> split.labels,
         pre_shift |-> padded.input_ids]

\* Masking by the pad id instead of the attention mask.
MaskLabels_by_pad_id(attention_mask, labels) ==
    [r \in 1..Len(labels) |->
        [i \in 1..Len(labels[r]) |->
            IF labels[r][i] # PadTokenId THEN labels[r][i] ELSE IgnoreIndex]]

\* labels = torch.where(attention_mask, labels, -100) (367)
MaskLabels(attention_mask, labels) ==
    [r \in 1..Len(labels) |->
        [i \in 1..Len(labels[r]) |->
            IF attention_mask[r][i] THEN labels[r][i] ELSE IgnoreIndex]]

\* ------------------------------------------------------------- SpecPrep
\* A record of the tokenized dataset: ids 1..len (so every token of a record
\* is distinct and id 2, the pad id, occurs as content), mask all ones.
RawRecord(len) ==
    [input_ids |-> [i \in 1..len |-> i], attention_mask |-> [i \in 1..len |-> 1]]

Batches ==
    UNION {[1..n -> {RawRecord(l) : l \in 1..MaxRecLen}] : n \in 1..MaxBatch}

InitPrep ==
    /\ batch \in Batches
    /\ model_max_length \in 1..MaxModelLen
    /\ prepared = [present |-> FALSE]
    /\ loss_labels = <<>>
    /\ prep_pc = "raw"
    /\ SchedIdle
    /\ RunIdle
    /\ ExtIdle

\* batch = self.prepare_data(batch) (355): one random start per long record.
PrepareData ==
    /\ prep_pc = "raw"
    /\ LET max_length == max_length_of(batch, model_max_length)
       IN  \E starts \in [1..Len(batch) -> 0..MaxRecLen] :
             /\ \A i \in 1..Len(batch) :
                   starts[i] \in StartOffsets(Len(batch[i].input_ids), max_length)
             /\ LET rows == [i \in 1..Len(batch) |->
                                PrepareRecord(batch[i], max_length, starts[i])]
                IN  prepared' =
                      [present |-> TRUE,
                       max_length |-> max_length,
                       starts |-> starts,
                       input_ids |-> [i \in 1..Len(rows) |-> rows[i].input_ids],
                       attention_mask |-> [i \in 1..Len(rows) |-> rows[i].attention_mask],
                       labels |-> [i \in 1..Len(rows) |-> rows[i].labels],
                       pre_shift |-> [i \in 1..Len(rows) |-> rows[i].pre_shift]]
    /\ prep_pc' = "prepared"
    /\ UNCHANGED <<batch, model_max_length, loss_labels, sched_vars, run_vars, ext_vars>>

\* The masking of the labels inside the forward block (366-367).
MaskLabelsStep ==
    /\ prep_pc = "prepared"
    /\ loss_labels' = MaskLabels(prepared.attention_mask, prepared.labels)
    /\ prep_pc' = "masked"
    /\ UNCHANGED <<batch, model_max_length, prepared, sched_vars, run_vars, ext_vars>>

NextPrep == PrepareData \/ MaskLabelsStep

SpecPrep == InitPrep /\ [][NextPrep]_vars

\* ------------------------------------------------- claims C6, C7 and C8
RecLen(i) == Len(batch[i].input_ids)
Rows == 1..Len(batch)
LongestRecord == CHOOSE m \in {RecLen(i) : i \in Rows} : \A i \in Rows : RecLen(i) <= m
Window == IF LongestRecord < model_max_length THEN LongestRecord ELSE model_max_length

\* C6: prepare_data computes window = min(longest record, M), brings every
\* record to length window + 1 before the shift split and returns input_ids,
\* attention_mask and labels of shape (batch size, window); a record of
\* length 5 with M = 4 gives window 4 and rows of length 4.
C6_WindowAndShape ==
    prepared.present =>
        /\ prepared.max_length = Window
        /\ Len(prepared.input_ids) = Len(batch)
        /\ Len(prepared.attention_mask) = Len(batch)
        /\ Len(prepared.labels) = Len(batch)
        /\ \A i \in Rows :
              /\ Len(prepared.pre_shift[i]) = Window + 1
              /\ Len(prepared.input_ids[i]) = Window
              /\ Len(prepared.attention_mask[i]) = Window
              /\ Len(prepared.labels[i]) = Window
        /\ (Len(batch) = 1 /\ RecLen(1) = 5 /\ model_max_length = 4) =>
              /\ prepared.max_length = 4
              /\ Len(prepared.input_ids[1]) = 4
              /\ Len(prepared.labels[1]) = 4

C6_Witness ==
    /\ prepared.present
    /\ Len(batch) = 1 /\ RecLen(1) = 5 /\ model_max_length = 4
    /\ Len(prepared.pre_shift[1]) = 5
    /\ Len(prepared.input_ids[1]) = 4

\* C7: in the labels fed to the loss, every position whose attention_mask is
\* false holds -100 and every position whose attention_mask is true holds the
\* token that follows it in the padded pre-shift row.
C7_LabelsMaskedAndShifted ==
    prep_pc = "masked" =>
        \A r \in Rows :
            /\ Len(loss_labels[r]) = Len(prepared.attention_mask[r])
            /\ \A i \in 1..Len(loss_labels[r]) :
                  /\ ~prepared.attention_mask[r][i] => loss_labels[r][i] = IgnoreIndex
                  /\ prepared.attention_mask[r][i] =>
                        loss_labels[r][i] = prepared.pre_shift[r][i + 1]

\* A masked batch with a short row (ignored positions) next to a full row
\* whose last label is the stop pad.
C7_Witness ==
    /\ prep_pc = "masked"
    /\ Len(batch) = 2 /\ RecLen(1) = 1 /\ RecLen(2) = 3 /\ model_max_length = 4
    /\ loss_labels[1] = <<PadTokenId, IgnoreIndex, IgnoreIndex>>
    /\ loss_labels[2] = <<2, 3, PadTokenId>>

\* C8 as stated: a record longer than window keeps exactly window consecutive
\* tokens starting at a random offset, every offset of the closed range
\* [0, len - window] being a possible outcome (so the last window too); a
\* record whose length equals window is used whole.
C8_Original ==
    prepared.present =>
        \A i \in Rows :
            /\ RecLen(i) > prepared.max_length =>
                  /\ StartOffsets(RecLen(i), prepared.max_length)
                        = 0..(RecLen(i) - prepared.max_length)
                  /\ SubSeq(prepared.pre_shift[i], 1, prepared.max_length)
                        = SubSeq(batch[i].input_ids, prepared.starts[i] + 1,
                                 prepared.starts[i] + prepared.max_length)
            /\ RecLen(i) = prepared.max_length =>
                  SubSeq(prepared.pre_shift[i], 1, prepared.max_length)
                        = batch[i].input_ids

\* ------------------------------------------------ optimizer and scheduler
\* learning_rate = 1e-4 (train.py 9).
BaseLearningRate == <<1, 10000>>

\* torch.optim.AdamW(model.parameters(), lr=learning_rate, ...) (220, 564):
\* a new optimizer has no 'initial_lr' and has applied no update.
AdamW(lr) == [lr |-> lr, initial_lr |-> <<>>, steps |-> 0]

\* get_scheduler (69-80): LambdaLR's constructor records the optimizer's
\* 'initial_lr' (setdefault: an existing one is kept), sets last_epoch to 0
\* and writes base_lr * lr_lambda(0) into the optimizer.
get_scheduler(opt, warmup_steps, total_steps) ==
    LET base == IF opt.initial_lr = <<>> THEN opt.lr ELSE opt.initial_lr[1]
        lr0 == RatMul(base, lr_lambda(0, warmup_steps, total_steps))
    IN  [optimizer |-> [opt EXCEPT !.initial_lr = <<base>>, !.lr = lr0],
         scheduler |-> [last_epoch |-> 0, base_lr |-> base, last_lr |-> lr0]]

\* self.scheduler.step(step) (391): last_epoch = step, and the rate becomes
\* base_lr * lr_lambda(last_epoch).
scheduler_step(sch, epoch, warmup_steps, total_steps) ==
    [sch EXCEPT !.last_epoch = epoch,
                !.last_lr = RatMul(sch.base_lr,
                                   lr_lambda(epoch, warmup_steps, total_steps))]

\* An optimizer step taken whatever the gradients hold.
optimizer_step_always(opt, mdl, at_step, use_amp, found_inf) ==
    [optimizer |-> [opt EXCEPT !.steps = @ + 1],
     model |-> Append(mdl, <<at_step, opt.lr>>)]

\* Take optimizer step (384-388): grad_scaler.step(optimizer) skips
\* optimizer.step() when the unscaled gradients hold an inf or a NaN;
\* optimizer.step() updates the parameters with the optimizer's current rate.
optimizer_step(opt, mdl, at_step, use_amp, found_inf) ==
    IF use_amp /\ found_inf
    THEN [optimizer |-> opt, model |-> mdl]
    ELSE [optimizer |-> [opt EXCEPT !.steps = @ + 1],
          model |-> Append(mdl, <<at_step, opt.lr>>)]

\* grad_scaler = torch.amp.GradScaler('cuda') (339): scale 2^16, growth every
\* 2000 clean steps.
GradScaler == [present |-> TRUE, scale |-> RatOfInt(InitScale), growth_tracker |-> 0]

\* grad_scaler.update() (395): backoff factor 1/2 on overflow, growth factor 2.
grad_scaler_update(gs, found_inf) ==
    IF found_inf
    THEN [gs EXCEPT !.scale = RatMul(@, <<1, 2>>), !.growth_tracker = 0]
    ELSE IF gs.growth_tracker + 1 = GrowthInterval
         THEN [gs EXCEPT !.scale = RatMul(@, RatOfInt(2)), !.growth_tracker = 0]
         ELSE [gs EXCEPT !.growth_tracker = @ + 1]

\* multi_gpu_helpers.is_main_process (15): the modelled process is the
\* designated one.
is_main_process == TRUE

\* --------------------------------------------------- save_model (426-458)
\* A save that adds to what the directory already holds: the stored optimizer
\* state counts the updates of the old file and of the new one.
save_model_accumulating(slf, mdl, opt, sch, at_step, old_disk) ==
    [present |-> TRUE,
     model |-> mdl,
     optimizer |-> IF old_disk.present
                   THEN [opt EXCEPT !.steps = @ + old_disk.optimizer.steps]
                   ELSE opt,
     scheduler |-> sch,
     config |-> [learning_rate |-> slf.learning_rate,
                 warmup_steps |-> slf.warmup_steps,
                 num_steps |-> slf.num_steps,
                 log_steps |-> slf.log_steps,
                 use_amp |-> slf.use_amp,
                 dev |-> slf.dev,
                 clipping_value |-> slf.clipping_value,
                 step_ckpt |-> at_step,
                 wandb_id |-> slf.wandb_id]]

save_model(slf, mdl, opt, sch, at_step, old_disk) ==
    IF is_main_process
    THEN [present |-> TRUE,
          model |-> mdl,
          optimizer |-> opt,
          scheduler |-> sch,
          config |-> [learning_rate |-> slf.learning_rate,
                      warmup_steps |-> slf.warmup_steps,
                      num_steps |-> slf.num_steps,
                      log_steps |-> slf.log_steps,
                      use_amp |-> slf.use_amp,
                      dev |-> slf.dev,
                      clipping_value |-> slf.clipping_value,
                      step_ckpt |-> at_step,
                      wandb_id |-> slf.wandb_id]]
    ELSE old_disk

\* ---------------------------------------------- load_checkpoint (462-571)
\* The configuration comes from config.pt (467-482), the parameters from
\* model.safetensors (532); the optimizer is rebuilt and loads optimizer.pt
\* (564-565); then the scheduler is rebuilt on that optimizer and loads
\* scheduler.pt (568-569), which restores the scheduler's own fields only.
load_checkpoint(slf, ckpt) ==
    LET c == ckpt.config
        opt0 == [AdamW(c.learning_rate) EXCEPT
                    !.lr = ckpt.optimizer.lr,
                    !.initial_lr = ckpt.optimizer.initial_lr,
                    !.steps = ckpt.optimizer.steps]
        built == get_scheduler(opt0, c.warmup_steps, c.num_steps)
    IN  [self |-> [slf EXCEPT !.learning_rate = c.learning_rate,
                              !.warmup_steps = c.warmup_steps,
                              !.num_steps = c.num_steps,
                              !.log_steps = c.log_steps,
                              !.use_amp = c.use_amp,
                              !.dev = c.dev,
                              !.clipping_value = c.clipping_value,
                              !.step_ckpt = c.step_ckpt,
                              !.wandb_id = c.wandb_id],
         model |-> ckpt.model,
         optimizer |-> built.optimizer,
         scheduler |-> [built.scheduler EXCEPT
                           !.last_epoch = ckpt.scheduler.last_epoch,
                           !.base_lr = ckpt.scheduler.base_lr,
                           !.last_lr = ckpt.scheduler.last_lr]]

\* A data loader that yields one batch more than the step budget leaves.
data_loader_len_one_more(num_steps, step_shift) == num_steps - step_shift + 1

\* The number of batches data_loader yields (303-316): the sampler draws
\* (num_steps - step_shift) * batch_size records with replacement and the
\* loader groups them batch_size at a time.
data_loader_len(num_steps, step_shift) == num_steps - step_shift

\* ----------------------------------------------------------------- Spec
\* Trainer.__init__ without a checkpoint (108-235), for every configuration
\* within the bounds.
Init ==
    /\ \E W \in 1..MaxRunWarmup, T \in 2..MaxRunSteps, save \in 1..MaxSaveSteps,
          logn \in 1..MaxLogSteps, amp \in BOOLEAN, d \in {"cpu", "gpu"} :
          /\ W < T
          /\ self = [learning_rate |-> BaseLearningRate,
                     warmup_steps |-> W,
                     num_steps |-> T,
                     log_steps |-> logn,
                     use_amp |-> amp,
                     dev |-> d,
                     clipping_value |-> {},
                     num_save_steps |-> save,
                     step_ckpt |-> 0,
                     wandb_id |-> {}]
          /\ dist_initialized = (d # "cpu")
          /\ LET built == get_scheduler(AdamW(BaseLearningRate), W, T)
             IN  optimizer = built.optimizer /\ scheduler = built.scheduler
    /\ model = <<>>
    /\ disk = [present |-> FALSE]
    /\ pc = "constructed"
    /\ step = 0
    /\ it = 0
    /\ n_batches = 0
    /\ batch_loss = <<0, 1>>
    /\ grad_scaler = [present |-> FALSE]
    /\ wandb_last = [present |-> FALSE]
    /\ last_update = [present |-> FALSE]
    /\ run = 0
    /\ clean = TRUE
    /\ SchedIdle
    /\ PrepIdle
    /\ ExtIdle

\* train_model -> train_model_(dataset, self.num_steps, self.step_ckpt), up
\* to the loop (277-350): the sampler draws (num_steps - step_shift) batches
\* (304), wandb.init keeps or creates the run id (322-335), the scaler is
\* created (338-339), and dist.barrier() (347) raises without a process group.
TrainStart ==
    /\ pc = "constructed"
    /\ IF data_loader_len(self.num_steps, self.step_ckpt) <= 0
       THEN /\ pc' = "failed"
            /\ UNCHANGED <<self, grad_scaler, n_batches, step, it, batch_loss>>
       ELSE /\ self' = [self EXCEPT !.wandb_id =
                          IF is_main_process /\ @ = {} THEN {"run"} ELSE @]
            /\ grad_scaler' = IF self.use_amp THEN GradScaler ELSE [present |-> FALSE]
            /\ batch_loss' = <<0, 1>>
            /\ n_batches' = data_loader_len(self.num_steps, self.step_ckpt)
            /\ step' = self.step_ckpt
            /\ it' = 0
            /\ pc' = IF dist_initialized THEN "loop" ELSE "failed"
    /\ UNCHANGED <<model, optimizer, scheduler, dist_initialized, disk, wandb_last,
                   last_update, run, clean, sched_vars, prep_vars, ext_vars>>

\* One iteration of the training loop (351-422).
TrainStep ==
    /\ pc = "loop"
    /\ it < n_batches
    /\ \E loss \in 1..MaxLoss, found_inf \in BOOLEAN :
          /\ found_inf => self.use_amp
          /\ LET k == it + self.step_ckpt
                 stepped == optimizer_step(optimizer, model, k, self.use_amp, found_inf)
                 sch == scheduler_step(scheduler, k, self.warmup_steps, self.num_steps)
                 opt == [stepped.optimizer EXCEPT !.lr = sch.last_lr]
                 bl == RatAdd(batch_loss, Frac(loss, self.log_steps))
                 logs == k % self.log_steps = 0
                 brk == k >= self.num_steps
             IN  /\ step' = k
                 /\ it' = it + 1
                 /\ model' = stepped.model
                 /\ optimizer' = opt
                 /\ scheduler' = sch
                 /\ grad_scaler' = IF self.use_amp
                                   THEN grad_scaler_update(grad_scaler, found_inf)
                                   ELSE grad_scaler
                 /\ wandb_last' = IF logs /\ is_main_process
                                  THEN [present |-> TRUE, loss |-> bl, lr |-> opt.lr,
                                        step |-> k]
                                  ELSE wandb_last
                 /\ batch_loss' = IF logs THEN <<0, 1>> ELSE bl
                 /\ pc' = IF brk THEN "done" ELSE "loop"
                 /\ disk' = IF ~brk /\ k % self.num_save_steps = 0
                            THEN save_model(self, stepped.model, opt, sch, k, disk)
                            ELSE disk
                 /\ last_update' = [present |-> TRUE,
                                     step |-> k,
                                     lr |-> optimizer.lr,
                                     lr_after |-> opt.lr,
                                     found_inf |-> found_inf,
                                     run |-> run]
    /\ UNCHANGED <<self, dist_initialized, n_batches, run, clean, sched_vars, prep_vars, ext_vars>>

\* The data loader is exhausted: the for statement ends (351).
LoopEnd ==
    /\ pc = "loop"
    /\ it = n_batches
    /\ pc' = "done"
    /\ UNCHANGED <<self, model, optimizer, scheduler, dist_initialized, disk, step, it,
                   n_batches, batch_loss, grad_scaler, wandb_last, last_update, run, clean,
                   sched_vars, prep_vars, ext_vars>>

\* The forward pass, the loss or the backward pass of the next iteration
\* raises (362-376): the exception leaves train_model_.
StepFatal ==
    /\ pc = "loop"
    /\ it < n_batches
    /\ pc' = "failed"
    /\ UNCHANGED <<self, model, optimizer, scheduler, dist_initialized, disk, step, it,
                   n_batches, batch_loss, grad_scaler, wandb_last, last_update, run, clean,
                   sched_vars, prep_vars, ext_vars>>

\* The process is stopped from outside between two iterations.
Stop ==
    /\ pc = "loop"
    /\ pc' = "stopped"
    /\ UNCHANGED <<self, model, optimizer, scheduler, dist_initialized, disk, step, it,
                   n_batches, batch_loss, grad_scaler, wandb_last, last_update, run, clean,
                   sched_vars, prep_vars, ext_vars>>

\* The last thing the loop did was save_model(step) (421-422), and the
\* process has changed nothing since.
JustSaved ==
    /\ it > 0
    /\ step % self.num_save_steps = 0
    /\ disk.present
    /\ disk.config.step_ckpt = step

\* A new process: Trainer(..., load_checkpoint=True, checkpoint_path=...)
\* with the arguments of the first run (108-140, 462-571).
Resume ==
    /\ pc \in {"stopped", "failed", "done"}
    /\ disk.present
    /\ run < MaxResumes
    /\ LET loaded == load_checkpoint(self, disk)
       IN  /\ self' = loaded.self
           /\ model' = loaded.model
           /\ optimizer' = loaded.optimizer
           /\ scheduler' = loaded.scheduler
           /\ dist_initialized' = (loaded.self.dev # "cpu")
    /\ pc' = "constructed"
    /\ step' = 0
    /\ it' = 0
    /\ n_batches' = 0
    /\ batch_loss' = <<0, 1>>
    /\ grad_scaler' = [present |-> FALSE]
    /\ run' = run + 1
    /\ clean' = (clean /\ pc = "stopped" /\ JustSaved)
    /\ UNCHANGED <<disk, wandb_last, last_update, sched_vars, prep_vars, ext_vars>>

Next == TrainStart \/ TrainStep \/ LoopEnd \/ StepFatal \/ Stop \/ Resume

Spec == Init /\ [][Next]_vars

\* The run loop is one single-threaded control loop (351): once started it
\* takes the next batch, or leaves the for statement, unless the process is
\* stopped or a step raises.
\* TrainStep is enabled exactly when TrainStepEnabled holds (a loss and
\* found_inf = FALSE always exist), so the middle conjunct is WF_vars(TrainStep)
\* with ENABLED written out.
TrainStepEnabled == pc = "loop" /\ it < n_batches

FairSpec ==
    /\ Spec
    /\ WF_vars(TrainStart)
    /\ ([]<>~TrainStepEnabled \/ []<><<TrainStep>>_vars)
    /\ WF_vars(LoopEnd)

\* ---------------------------------------- claims C1, C2, C3, C9 and C10
\* base_learning_rate * multiplier(k) for the trainer's schedule.
ScheduledRate(k) ==
    RatMul(self.learning_rate, lr_lambda(k, self.warmup_steps, self.num_steps))

\* The transition is one iteration of the training loop.
Iterates == it' = it + 1

\* C1 as stated: when every stop so far came right after a save, the executed
\* optimizer steps continue as in a run that never stopped: each step index is
\* the previous one plus one (none repeated, none skipped, also across a
\* resumption) and each step is applied with the rate the previous step left
\* in the optimizer.
C1_Original ==
    [][(Iterates /\ clean /\ last_update.present) =>
          /\ last_update'.step = last_update.step + 1
          /\ last_update'.lr = last_update.lr_after]_vars

\* C2 as stated: right after load_checkpoint of a checkpoint written at step
\* S, the step counter is S, the optimizer's rate is the rate it held when the
\* checkpoint was written, base_learning_rate * multiplier(S), and step
\* counter, optimizer rate and scheduler position agree.
C2_Original ==
    (pc = "constructed" /\ run > 0) =>
        /\ self.step_ckpt = disk.config.step_ckpt
        /\ optimizer.lr = disk.optimizer.lr
        /\ optimizer.lr = ScheduledRate(self.step_ckpt)
        /\ scheduler.last_epoch = self.step_ckpt
        /\ optimizer.lr = scheduler.last_lr

\* C3 as stated: the optimizer update of every executed step k is applied
\* with base_learning_rate * multiplier(k).
C3_Original ==
    last_update.present => last_update.lr = ScheduledRate(last_update.step)

\* C9: under the scaled-precision policy, an iteration k in which a non-finite
\* gradient is detected leaves the model parameters (and the optimizer's
\* update count) as they were, halves the loss scale, does not abort the run,
\* and the loop goes on from k + 1.
C9_OverflowSkipsUpdate ==
    [][(Iterates /\ self.use_amp /\ last_update'.found_inf) =>
          /\ model' = model
          /\ optimizer'.steps = optimizer.steps
          /\ grad_scaler'.scale = RatMul(grad_scaler.scale, <<1, 2>>)
          /\ pc' = "loop"
          /\ step' = self.step_ckpt + it
          /\ self.step_ckpt + it' = step' + 1]_vars

\* An overflow at some step was followed by a normal step: the scale is
\* halved, one update is missing from the parameters, the loop is running.
C9_Witness ==
    /\ pc = "loop"
    /\ self.use_amp
    /\ last_update.present /\ ~last_update.found_inf
    /\ grad_scaler.scale = <<InitScale \div 2, 1>>
    /\ run = 0 /\ it = 2 /\ Len(model) = 1

\* C10 as stated: save_model runs at every executed step that is a multiple
\* of num_save_steps and once more when the loop ends, so that after the loop
\* the stored checkpoint records the final step of the run.
C10_Original ==
    /\ (pc = "loop" /\ it > 0 /\ step % self.num_save_steps = 0) =>
          (disk.present /\ disk.config.step_ckpt = step)
    /\ pc = "done" => (disk.present /\ disk.config.step_ckpt = step)

\* --------------------------------------------------------------- claim C11
Ended == pc \in {"done", "failed", "stopped"}

\* C11 as stated: started at resume step S < T the loop runs steps, never one
\* with an index above T, always ends unless a step fails, and the step
\* counter equals T when it has ended.
C11_Original ==
    /\ last_update.present => last_update.step <= self.num_steps
    /\ pc = "done" => step = self.num_steps

\* C11 amended: started at resume step S with 0 <= S < T, the loop runs
\* exactly the T - S steps S, ..., T - 1 and then ends: a started run always
\* ends (normally, by a fatal error or by being stopped), no step has an index
\* above T - 1, and when the loop has ended normally the step counter equals
\* T - 1, not T.
C11_EndsAfterLastIndex ==
    /\ [](last_update.present => last_update.step <= self.num_steps - 1)
    /\ [](pc = "loop" => (0 <= self.step_ckpt /\ self.step_ckpt < self.num_steps))
    /\ [](pc = "done" => /\ step = self.num_steps - 1
                         /\ it = self.num_steps - self.step_ckpt)
    /\ (pc \in {"constructed", "loop"}) ~> Ended

\* A run resumed at S >= 1 that has ended normally.
C11_Witness ==
    /\ pc = "done"
    /\ run = 1 /\ self.step_ckpt >= 1
    /\ it = self.num_steps - self.step_ckpt
    /\ step = self.num_steps - 1

\* ------------------------------------------------------------ SpecGroup
\* One process per device (torchrun), ranks 0 .. WORLD_SIZE - 1, each
\* constructing the same Trainer and calling train_model_.
Ranks == 0..(group_cfg.world_size - 1)

\* multi_gpu_helpers.is_main_process (15) in the process of the given rank:
\* the designated process is the one of rank 0.
is_main_process_rank(rank) == rank = 0

\* A save_model that writes in whichever process calls it.
save_model_unguarded(rank) == TRUE

\* save_model's guard (426-427): the artifacts are written only where
\* is_main_process() holds; elsewhere the call returns at once.
save_model_writes(rank) == is_main_process_rank(rank)

\* A collective that returns without waiting for the peers.
collective_done_alone(coll, ranks, rank) == TRUE

\* dist.barrier() (54, 347) and the gradient all-reduce of DDP's backward
\* (374-376) return in a process once every process of the group has entered
\* the same collective: collectives are matched in the order they are issued.
collective_done(coll, ranks, rank) == \A q \in ranks : coll[q] >= coll[rank]

InitGroup ==
    /\ \E N \in 2..MaxProcs, T \in 1..MaxGroupSteps, logn \in 1..MaxGroupInterval,
          save \in 1..MaxGroupInterval :
          \E S \in 0..(T - 1) :
             /\ group_cfg = [present |-> TRUE, world_size |-> N, num_steps |-> T,
                             step_ckpt |-> S, log_steps |-> logn,
                             num_save_steps |-> save]
             /\ proc_pc = [p \in 0..(N - 1) |-> "init_distributed"]
             /\ proc_it = [p \in 0..(N - 1) |-> 0]
             /\ proc_coll = [p \in 0..(N - 1) |-> 0]
    /\ wandb_runs = {}
    /\ ckpt_writes = {}
    /\ log_records = {}
    /\ OutsideGroupIdle

\* init_distributed (26-54) called by the constructor (202-205): the group is
\* joined and the process enters the barrier of line 54.
GroupInitDistributed(p) ==
    /\ proc_pc[p] = "init_distributed"
    /\ proc_coll' = [proc_coll EXCEPT ![p] = @ + 1]
    /\ proc_pc' = [proc_pc EXCEPT ![p] = "barrier_54"]
    /\ UNCHANGED <<group_cfg, proc_it, wandb_runs, ckpt_writes, log_records,
                   outside_group>>

\* The barrier of line 54 returns; the rest of the constructor (207-235) or of
\* load_checkpoint (548-571) builds model, optimizer and scheduler.
GroupConstructed(p) ==
    /\ proc_pc[p] = "barrier_54"
    /\ collective_done(proc_coll, Ranks, p)
    /\ proc_pc' = [proc_pc EXCEPT ![p] = "constructed"]
    /\ UNCHANGED <<group_cfg, proc_it, proc_coll, wandb_runs, ckpt_writes, log_records,
                   outside_group>>

\* train_model_ up to the barrier (285-345): data set and loader, and in the
\* designated process wandb.init and self.wandb_id = wandb.run.id (321-335).
GroupSetup(p) ==
    /\ proc_pc[p] = "constructed"
    /\ wandb_runs' = IF is_main_process_rank(p) THEN wandb_runs \cup {p} ELSE wandb_runs
    /\ proc_pc' = [proc_pc EXCEPT ![p] = "ready"]
    /\ UNCHANGED <<group_cfg, proc_it, proc_coll, ckpt_writes, log_records,
                   outside_group>>

\* dist.barrier() before the loop (346-347): the process arrives.
GroupArrive(p) ==
    /\ proc_pc[p] = "ready"
    /\ proc_coll' = [proc_coll EXCEPT ![p] = @ + 1]
    /\ proc_pc' = [proc_pc EXCEPT ![p] = "barrier_347"]
    /\ UNCHANGED <<group_cfg, proc_it, wandb_runs, ckpt_writes, log_records,
                   outside_group>>

\* The barrier of line 347 returns and the for statement starts (350-351).
GroupEnterLoop(p) ==
    /\ proc_pc[p] = "barrier_347"
    /\ collective_done(proc_coll, Ranks, p)
    /\ proc_pc' = [proc_pc EXCEPT ![p] = "loop"]
    /\ UNCHANGED <<group_cfg, proc_it, proc_coll, wandb_runs, ckpt_writes, log_records,
                   outside_group>>

\* The next batch: prepare_data, forward pass and loss (351-370), then
\* backward (373-376), which enters the gradient all-reduce.
GroupForward(p) ==
    /\ proc_pc[p] = "loop"
    /\ proc_it[p] < data_loader_len(group_cfg.num_steps, group_cfg.step_ckpt)
    /\ proc_coll' = [proc_coll EXCEPT ![p] = @ + 1]
    /\ proc_pc' = [proc_pc EXCEPT ![p] = "backward"]
    /\ UNCHANGED <<group_cfg, proc_it, wandb_runs, ckpt_writes, log_records,
                   outside_group>>

\* The all-reduce returns; the rest of the iteration (378-422): the update,
\* wandb.log in the designated process every log_steps steps (403-413; wandb.log
\* raises in a process that holds no run), save_model every num_save_steps
\* steps, written by the designated process only (421-422, 426-427).
GroupFinishStep(p) ==
    /\ proc_pc[p] = "backward"
    /\ collective_done(proc_coll, Ranks, p)
    /\ LET k == proc_it[p] + group_cfg.step_ckpt
           logs == k % group_cfg.log_steps = 0 /\ is_main_process_rank(p)
           saves == k < group_cfg.num_steps /\ k % group_cfg.num_save_steps = 0
                       /\ save_model_writes(p)
       IN  IF logs /\ p \notin wandb_runs
           THEN /\ proc_pc' = [proc_pc EXCEPT ![p] = "failed"]
                /\ UNCHANGED <<proc_it, ckpt_writes, log_records>>
           ELSE /\ log_records' = IF logs THEN log_records \cup {<<p, k>>}
                                  ELSE log_records
                /\ ckpt_writes' = IF saves THEN ckpt_writes \cup {<<p, k>>}
                                  ELSE ckpt_writes
                /\ proc_it' = [proc_it EXCEPT ![p] = @ + 1]
                /\ proc_pc' = [proc_pc EXCEPT ![p] = "loop"]
    /\ UNCHANGED <<group_cfg, proc_coll, wandb_runs, outside_group>>

\* The data loader is exhausted: train_model_ returns.
GroupLoopEnd(p) ==
    /\ proc_pc[p] = "loop"
    /\ proc_it[p] = data_loader_len(group_cfg.num_steps, group_cfg.step_ckpt)
    /\ proc_pc' = [proc_pc EXCEPT ![p] = "done"]
    /\ UNCHANGED <<group_cfg, proc_it, proc_coll, wandb_runs, ckpt_writes, log_records,
                   outside_group>>

NextGroup ==
    \/ \E p \in Ranks : GroupInitDistributed(p)
    \/ \E p \in Ranks : GroupConstructed(p)
    \/ \E p \in Ranks : GroupSetup(p)
    \/ \E p \in Ranks : GroupArrive(p)
    \/ \E p \in Ranks : GroupEnterLoop(p)
    \/ \E p \in Ranks : GroupForward(p)
    \/ \E p \in Ranks : GroupFinishStep(p)
    \/ \E p \in Ranks : GroupLoopEnd(p)

SpecGroup == InitGroup /\ [][NextGroup]_vars

\* ------------------------------------------------ claims C12, C13 and C14
\* The process has arrived at the barrier that precedes the training loop.
ArrivedAtLoopBarrier(q) == proc_pc[q] \in {"barrier_347", "loop", "backward", "done", "failed"}

\* The process has run the forward pass of its first training step.
StartedTraining(p) == proc_pc[p] = "backward" \/ proc_it[p] > 0

\* C12: in a group of N processes only the process of rank 0 has written a
\* checkpoint, emitted a metric record or opened the tracking run, and no
\* process has failed for skipping them.
C12_DesignatedOnly ==
    /\ \A w \in ckpt_writes : w[1] = 0
    /\ \A r \in log_records : r[1] = 0
    /\ wandb_runs \subseteq {0}
    /\ \A p \in DOMAIN proc_pc : proc_pc[p] # "failed"

\* Every process has finished its loop; the designated one has saved and
\* logged, a peer has skipped both.
C12_Witness ==
    /\ group_cfg.present
    /\ \A p \in Ranks : proc_pc[p] = "done"
    /\ ckpt_writes # {} /\ log_records # {}

\* C13: no process has run the forward pass of its first training step unless
\* every process of the group has arrived at the barrier of line 347.
C13_NoStepBeforeBarrier ==
    \A p \in DOMAIN proc_pc :
        StartedTraining(p) => \A q \in DOMAIN proc_pc : ArrivedAtLoopBarrier(q)

\* One process is in its first training step while a peer, which has arrived,
\* has not yet returned from the barrier.
C13_Witness ==
    \E p, q \in DOMAIN proc_pc :
        /\ proc_pc[p] = "backward" /\ proc_it[p] = 0
        /\ proc_pc[q] = "barrier_347"

\* C14 as stated: the designated process holds no open tracking run (and has
\* recorded no run id) unless every peer has arrived at the barrier of line 347.
C14_Original ==
    wandb_runs # {} =>
        \A q \in DOMAIN proc_pc : q # 0 => ArrivedAtLoopBarrier(q)

\* ------------------------------------------------------------- SpecSave
\* The files save_model writes, in the order it writes them: save_pretrained
\* of the model (429) and of the tokenizer (430), optimizer.pt (433),
\* scheduler.pt (436), config.pt (439-455), tokenizer.pt (458).
SaveOrder ==
    <<"model.safetensors", "tokenizer_files", "optimizer.pt", "scheduler.pt",
      "config.pt", "tokenizer.pt">>

Artifacts == {SaveOrder[i] : i \in 1..Len(SaveOrder)}

\* What each file receives, taken from the checkpoint save_model builds; the
\* tokenizer does not change during training.
artifact_content(ckpt, name) ==
    CASE name = "model.safetensors" -> ckpt.model
      [] name = "optimizer.pt" -> ckpt.optimizer
      [] name = "scheduler.pt" -> ckpt.scheduler
      [] name = "config.pt" -> ckpt.config
      [] OTHER -> "tokenizer"

EmptyDisk == [a \in Artifacts |-> <<>>]

\* Every file load_checkpoint opens is there (464, 467, 532, 538, 565, 569).
Readable(d) == \A a \in Artifacts : d[a] # <<>>

\* The directory as load_checkpoint reads it.
as_checkpoint(d) ==
    IF Readable(d)
    THEN [present |-> TRUE,
          model |-> d["model.safetensors"][1],
          optimizer |-> d["optimizer.pt"][1],
          scheduler |-> d["scheduler.pt"][1],
          config |-> d["config.pt"][1]]
    ELSE [present |-> FALSE]

\* The checkpoint the running save_model(step) call writes: the state in
\* memory, with step = the loop's step.
SaveTarget ==
    save_model(save_mem.self, save_mem.model, save_mem.optimizer, save_mem.scheduler,
               save_mem.it - 1, as_checkpoint(save_hist.begun))

InitSave ==
    /\ \E T \in 2..MaxSaveRunSteps :
          LET built == get_scheduler(AdamW(BaseLearningRate), 1, T)
          IN  save_mem = [present |-> TRUE,
                          self |-> [learning_rate |-> BaseLearningRate,
                                    warmup_steps |-> 1,
                                    num_steps |-> T,
                                    log_steps |-> 1,
                                    use_amp |-> FALSE,
                                    dev |-> "gpu",
                                    clipping_value |-> {},
                                    num_save_steps |-> 1,
                                    step_ckpt |-> 0,
                                    wandb_id |-> {"run"}],
                          model |-> <<>>,
                          optimizer |-> built.optimizer,
                          scheduler |-> built.scheduler,
                          it |-> 0]
    /\ save_disk = EmptyDisk
    /\ save_pc = [at |-> "idle", next |-> 0]
    /\ save_hist = [present |-> TRUE, saves |-> 0, after_first |-> <<>>,
                    begun |-> EmptyDisk]
    /\ OutsideSaveIdle

\* One iteration of the training loop between two saves (351-398).
SaveTrainStep ==
    /\ save_pc.at = "idle"
    /\ save_mem.it < data_loader_len(save_mem.self.num_steps, save_mem.self.step_ckpt)
    /\ LET k == save_mem.it + save_mem.self.step_ckpt
           stepped == optimizer_step(save_mem.optimizer, save_mem.model, k, FALSE, FALSE)
           sch == scheduler_step(save_mem.scheduler, k, save_mem.self.warmup_steps,
                                 save_mem.self.num_steps)
       IN  save_mem' = [save_mem EXCEPT !.model = stepped.model,
                                        !.optimizer = [stepped.optimizer EXCEPT
                                                          !.lr = sch.last_lr],
                                        !.scheduler = sch,
                                        !.it = @ + 1]
    /\ save_hist' = [save_hist EXCEPT !.saves = 0, !.after_first = <<>>]
    /\ UNCHANGED <<save_disk, save_pc, outside_save>>

\* self.save_model(step) is called (422, 426-427).
SaveBegin ==
    /\ save_pc.at = "idle"
    /\ save_mem.it > 0
    /\ save_hist.saves < MaxSavesPerStep
    /\ is_main_process
    /\ save_pc' = [at |-> "writing", next |-> 1]
    /\ save_hist' = [save_hist EXCEPT !.begun = save_disk]
    /\ UNCHANGED <<save_mem, save_disk, outside_save>>

\* The next file is written over the one of the same name (429-458); after
\* the last one save_model returns.
SaveWrite ==
    /\ save_pc.at = "writing"
    /\ LET a == SaveOrder[save_pc.next]
           written == [save_disk EXCEPT ![a] = <<artifact_content(SaveTarget, a)>>]
       IN  /\ save_disk' = written
           /\ IF save_pc.next = Len(SaveOrder)
              THEN /\ save_pc' = [at |-> "idle", next |-> 0]
                   /\ save_hist' = [save_hist EXCEPT
                                       !.saves = @ + 1,
                                       !.after_first = IF save_hist.saves = 0
                                                       THEN <<written>> ELSE @]
              ELSE /\ save_pc' = [save_pc EXCEPT !.next = @ + 1]
                   /\ UNCHANGED save_hist
    /\ UNCHANGED <<save_mem, outside_save>>

\* The saving process is killed between two writes of save_model.
SaveInterrupt ==
    /\ save_pc.at = "writing"
    /\ save_pc' = [save_pc EXCEPT !.at = "interrupted"]
    /\ UNCHANGED <<save_mem, save_disk, save_hist, outside_save>>

NextSave == SaveTrainStep \/ SaveBegin \/ SaveWrite \/ SaveInterrupt

SpecSave == InitSave /\ [][NextSave]_vars

\* ------------------------------------------------- claims C15 and C16
\* The directory holding every file of the checkpoint being written.
NewCheckpoint == [a \in Artifacts |-> <<artifact_content(SaveTarget, a)>>]

\* C15 as stated: when the saving process is interrupted during save_model,
\* the directory holds the complete checkpoint it held when the save began or
\* the complete new one.
C15_Original ==
    save_pc.at = "interrupted" =>
        \/ (Readable(save_hist.begun) /\ save_disk = save_hist.begun)
        \/ save_disk = NewCheckpoint

\* C16: after save_model has run twice at the same step with no training
\* step in between, load_checkpoint can read the directory and the state it
\* loads is the state it loads after the first of the two saves.
C16_SaveTwice ==
    (save_pc.at = "idle" /\ save_hist.saves >= 2) =>
        /\ Readable(save_disk)
        /\ load_checkpoint(save_mem.self, as_checkpoint(save_disk))
              = load_checkpoint(save_mem.self, as_checkpoint(save_hist.after_first[1]))
        /\ load_checkpoint(save_mem.self, as_checkpoint(save_disk)).self.step_ckpt
              = save_mem.it - 1

\* Two saves at step 1 over the checkpoint of step 0.
C16_Witness ==
    /\ save_pc.at = "idle"
    /\ save_hist.saves = 2
    /\ save_mem.it = 2
    /\ Readable(save_disk)
    /\ save_disk["config.pt"][1].step_ckpt = 1
    /\ Len(save_disk["model.safetensors"][1]) = 2

\* ------------------------------------------------------------- SpecCtor
\* The identifiers init_distributed reads (31-33).
RoleIds == {"RANK", "WORLD_SIZE", "LOCAL_RANK"}

\* An initialization made whatever torch.distributed reports.
needs_init_distributed_always(dev, initialized) == dev # "cpu"

\* `if dev != "cpu": if not dist.is_initialized(): init_distributed()`
\* (202-205, 543-546).
needs_init_distributed(dev, initialized) == dev # "cpu" /\ ~initialized

\* init_distributed (26-54) in a process whose peers join: os.environ[...]
\* raises KeyError for an absent identifier (31-33); init_process_group
\* creates the group with nccl, or with gloo when nccl raises RuntimeError
\* (36-48), and raises when neither backend works or when the default group
\* exists already; then set_device (51) and the barrier (54).
init_distributed(dg, env, nccl_ok, gloo_ok) ==
    IF ~(RoleIds \subseteq env)
    THEN [raised |-> TRUE, dist_group |-> dg]
    ELSE IF dg.initialized
    THEN [raised |-> TRUE,
          dist_group |-> [dg EXCEPT !.calls_on_existing = @ + 1]]
    ELSE IF ~nccl_ok /\ ~gloo_ok
    THEN [raised |-> TRUE, dist_group |-> dg]
    ELSE [raised |-> FALSE,
          dist_group |-> [dg EXCEPT !.initialized = TRUE,
                                    !.groups = @ + 1,
                                    !.barriers = @ + 1]]

\* A process started with any subset of the identifiers; the caller may have
\* created the group itself before constructing a Trainer.
InitCtor ==
    /\ environ \in SUBSET RoleIds
    /\ \E pre \in BOOLEAN :
          dist_group = [present |-> TRUE, initialized |-> pre,
                        groups |-> IF pre THEN 1 ELSE 0,
                        barriers |-> 0, calls_on_existing |-> 0]
    /\ ctor = [present |-> TRUE, requests |-> 0, dev_arg |-> "cpu", dev |-> "cpu",
               load_checkpoint |-> FALSE, created |-> {}, local_rank_defaulted |-> FALSE,
               found_group |-> FALSE]
    /\ ctor_pc = "none"
    /\ OutsideCtorIdle

\* Trainer(...) is called: the fields are stored (108-121) and the batch size
\* is divided by int(os.environ['WORLD_SIZE']) unless dev is "cpu" (129-134).
CtorBegin ==
    /\ ctor_pc \in {"none", "constructed", "failed"}
    /\ ctor.requests < MaxCtorRequests
    /\ \E dev_arg \in {"cpu", "gpu"}, load \in BOOLEAN :
          /\ ctor' = [ctor EXCEPT !.requests = @ + 1,
                                  !.dev_arg = dev_arg,
                                  !.dev = dev_arg,
                                  !.load_checkpoint = load,
                                  !.created = {},
                                  !.local_rank_defaulted = FALSE,
                                  !.found_group = FALSE]
          /\ ctor_pc' = IF dev_arg # "cpu" /\ "WORLD_SIZE" \notin environ
                        THEN "failed" ELSE "build"
    /\ UNCHANGED <<environ, dist_group, outside_ctor>>

\* The tokenizer and the model are built (144-196), or load_checkpoint reads
\* the model, config.pt (from which self.dev comes, 475), the parameters and
\* the tokenizer (464-539).
CtorBuildModel ==
    /\ ctor_pc = "build"
    /\ \E ckpt_dev \in {"cpu", "gpu"} :
          ctor' = [ctor EXCEPT !.created = @ \cup {"model"},
                               !.dev = IF ctor.load_checkpoint THEN ckpt_dev ELSE @]
    /\ ctor_pc' = "device"
    /\ UNCHANGED <<environ, dist_group, outside_ctor>>

\* Put the model on the desired device (201-215, 542-559): init_distributed
\* when needed, LOCAL_RANK with its default 0 (207-211, 548-552), DDP.
CtorDevice ==
    /\ ctor_pc = "device"
    /\ \E nccl_ok \in BOOLEAN, gloo_ok \in BOOLEAN :
          IF needs_init_distributed(ctor.dev, dist_group.initialized)
          THEN LET r == init_distributed(dist_group, environ, nccl_ok, gloo_ok)
               IN  /\ dist_group' = r.dist_group
                   /\ ctor_pc' = IF r.raised THEN "failed" ELSE "optimizer"
                   /\ UNCHANGED ctor
          ELSE /\ ctor' = [ctor EXCEPT
                              !.found_group = (ctor.dev # "cpu"),
                              !.local_rank_defaulted =
                                  (ctor.dev # "cpu" /\ "LOCAL_RANK" \notin environ)]
               /\ ctor_pc' = "optimizer"
               /\ UNCHANGED dist_group
    /\ UNCHANGED <<environ, outside_ctor>>

\* Optimizer and scheduler (219-235, 563-571).
CtorOptimizer ==
    /\ ctor_pc = "optimizer"
    /\ ctor' = [ctor EXCEPT !.created = @ \cup {"optimizer", "scheduler"}]
    /\ ctor_pc' = "constructed"
    /\ UNCHANGED <<environ, dist_group, outside_ctor>>

NextCtor == CtorBegin \/ CtorBuildModel \/ CtorDevice \/ CtorOptimizer

SpecCtor == InitCtor /\ [][NextCtor]_vars

\* ------------------------------------------------- claims C17 and C18
\* A construction in distributed mode is running or has ended, and an
\* identifier is absent.
DistributedWithMissingId ==
    /\ ctor_pc # "none"
    /\ ctor.dev_arg # "cpu" /\ ctor.dev # "cpu"
    /\ ~(RoleIds \subseteq environ)

\* C17 as stated: in distributed mode with an absent identifier the
\* construction fails, no model, optimizer or scheduler has been created when
\* it does, and no absent identifier is replaced by a default.
C17_Original ==
    DistributedWithMissingId =>
        /\ ctor_pc # "constructed"
        /\ ctor.created = {}
        /\ ~ctor.local_rank_defaulted

\* C18: in one process the group is created at most once, a construction in
\* distributed mode that succeeds leaves exactly one group, and a construction
\* that finds a group established leaves torch.distributed as it is: no second
\* creation, no call of init_distributed, no further barrier.
C18_InitOnce ==
    [][/\ dist_group'.groups <= 1
       /\ dist_group'.barriers <= 1
       /\ dist_group'.calls_on_existing = 0
       /\ dist_group'.initialized = (dist_group'.groups = 1)
       /\ (ctor_pc' = "constructed" /\ ctor'.dev # "cpu") => dist_group'.groups = 1
       /\ dist_group.initialized => dist_group' = dist_group]_vars

\* A second construction in distributed mode has succeeded in a process whose
\* first construction created the group.
C18_Witness ==
    /\ ctor_pc = "constructed"
    /\ ctor.requests = 2
    /\ ctor.dev # "cpu"
    /\ ctor.found_group
    /\ dist_group.groups = 1 /\ dist_group.barriers = 1

\* ------------------------------------------------------------- SpecExec
\* The statements of the loop body in the order of the source (362-398),
\* with the scheduler stepped before the optimizer.
StepOrder_scheduler_first ==
    <<"forward", "loss", "backward", "unscale", "clip", "scheduler_step",
      "optimizer_step", "scaler_update", "zero_grad", "end_of_step">>

\* The statements of the loop body in the order of the source: model(...)
\* (364), loss_fct (370), backward (373-376), unscale_ (379-380),
\* clip_grad_norm_ (381-382), the optimizer step (384-388), scheduler.step
\* (391), grad_scaler.update (394-395), zero_grad (398), and the rest of the
\* iteration (400-422).
StepOrder ==
    <<"forward", "loss", "backward", "unscale", "clip", "optimizer_step",
      "scheduler_step", "scaler_update", "zero_grad", "end_of_step">>

\* The statement that follows ph in the loop body.
next_statement(ph) ==
    LET i == CHOOSE j \in 1..Len(StepOrder) : StepOrder[j] = ph
    IN  StepOrder[i + 1]

\* The condition of the if statement around a phase: `if self.use_amp` (379,
\* 394), `if self.clipping_value is not None` (381); the other phases are
\* unconditional.
phase_gate(ph, slf) ==
    CASE ph \in {"unscale", "scaler_update"} -> slf.use_amp
      [] ph = "clip" -> slf.clipping_value # {}
      [] OTHER -> TRUE

\* outputs = self.model(input_ids, attention_mask=attention_mask).logits (364)
forward_pass(st) == [st EXCEPT !.outputs = TRUE]

\* loss = loss_fct(outputs.view(...), labels.view(-1)) (366-370)
compute_loss(st) == [st EXCEPT !.loss = st.outputs]

\* A backward pass fused with the update: the parameters are stepped while
\* the gradients are produced.
loss_backward_fused(st) ==
    LET stepped == optimizer_step(st.optimizer, st.model, st.it + st.self.step_ckpt,
                                  FALSE, FALSE)
    IN  [st EXCEPT !.grads = [accumulated |-> st.loss, scaled |-> st.self.use_amp,
                              clipped |-> FALSE],
                   !.model = stepped.model,
                   !.optimizer = stepped.optimizer]

\* grad_scaler.scale(loss).backward() / loss.backward() (372-376): the
\* gradients of the (scaled) loss are accumulated into the parameters' .grad.
loss_backward(st) ==
    [st EXCEPT !.grads = [accumulated |-> st.loss, scaled |-> st.self.use_amp,
                          clipped |-> FALSE]]

\* grad_scaler.unscale_(self.optimizer) (379-380): the gradients are divided
\* by the scale and checked for inf / NaN.
unscale_(st, found_inf) ==
    [st EXCEPT !.grads.scaled = FALSE, !.found_inf = found_inf]

\* torch.nn.utils.clip_grad_norm_(self.model.parameters(), clipping_value) (382)
clip_grad_norm_(st) == [st EXCEPT !.grads.clipped = TRUE]

\* grad_scaler.step(self.optimizer) / self.optimizer.step() (384-388)
take_optimizer_step(st) ==
    LET stepped == optimizer_step(st.optimizer, st.model, st.it + st.self.step_ckpt,
                                  st.self.use_amp, st.found_inf)
    IN  [st EXCEPT !.model = stepped.model, !.optimizer = stepped.optimizer]

\* self.scheduler.step(step) (390-391)
update_scheduler(st) ==
    LET sch == scheduler_step(st.scheduler, st.it + st.self.step_ckpt,
                              st.self.warmup_steps, st.self.num_steps)
    IN  [st EXCEPT !.scheduler = sch, !.optimizer.lr = sch.last_lr]

\* grad_scaler.update() (393-395)
step_grad_scaler(st) ==
    [st EXCEPT !.grad_scaler = grad_scaler_update(st.grad_scaler, st.found_inf)]

\* self.optimizer.zero_grad() (397-398)
zero_grad(st) ==
    [st EXCEPT !.grads = [accumulated |-> FALSE, scaled |-> FALSE, clipped |-> FALSE]]

\* What C20 speaks of: parameters, optimizer state, schedule state, checkpoint.
TrainingState(st) ==
    [present |-> TRUE, model |-> st.model, optimizer |-> st.optimizer,
     scheduler |-> st.scheduler, disk |-> st.disk]

\* A trainer constructed without a checkpoint (108-235) whose train_model_
\* has reached the loop (284-351), for every precision policy and clipping
\* setting.
InitExec ==
    /\ \E T \in 2..MaxExecSteps, amp \in BOOLEAN, clip \in {{}, {1}} :
          LET built == get_scheduler(AdamW(BaseLearningRate), 1, T)
          IN  exec = [present |-> TRUE,
                      self |-> [learning_rate |-> BaseLearningRate,
                                warmup_steps |-> 1,
                                num_steps |-> T,
                                log_steps |-> 1,
                                use_amp |-> amp,
                                dev |-> "gpu",
                                clipping_value |-> clip,
                                num_save_steps |-> 1,
                                step_ckpt |-> 0,
                                wandb_id |-> {"run"}],
                      model |-> <<>>,
                      optimizer |-> built.optimizer,
                      scheduler |-> built.scheduler,
                      grad_scaler |-> IF amp THEN GradScaler ELSE [present |-> FALSE],
                      grads |-> [accumulated |-> FALSE, scaled |-> FALSE,
                                 clipped |-> FALSE],
                      disk |-> [present |-> FALSE],
                      it |-> 0,
                      outputs |-> FALSE,
                      loss |-> FALSE,
                      found_inf |-> FALSE,
                      raised |-> "no"]
    /\ exec_pc = "forward"
    /\ exec_trace = <<>>
    /\ exec_prev = TrainingState(exec)
    /\ OutsideExecIdle

\* The statement at ph runs: its phase is executed when the condition around
\* it holds, and control goes to the statement after it.
RunStatement(ph, effect) ==
    /\ exec_pc = ph
    /\ IF phase_gate(ph, exec.self)
       THEN exec' = effect /\ exec_trace' = Append(exec_trace, ph)
       ELSE UNCHANGED <<exec, exec_trace>>
    /\ exec_pc' = next_statement(ph)
    /\ UNCHANGED <<exec_prev, outside_exec>>

ExecForward == RunStatement("forward", forward_pass(exec))

ExecLoss == RunStatement("loss", compute_loss(exec))

ExecBackward == RunStatement("backward", loss_backward(exec))

ExecUnscale ==
    \E found_inf \in BOOLEAN : RunStatement("unscale", unscale_(exec, found_inf))

ExecClip == RunStatement("clip", clip_grad_norm_(exec))

ExecOptimizerStep == RunStatement("optimizer_step", take_optimizer_step(exec))

ExecSchedulerStep == RunStatement("scheduler_step", update_scheduler(exec))

ExecScalerUpdate == RunStatement("scaler_update", step_grad_scaler(exec))

ExecZeroGrad == RunStatement("zero_grad", zero_grad(exec))

\* The rest of the iteration (400-422): save_model every num_save_steps
\* steps; then the next batch, or the end of the loop.
ExecEndOfStep ==
    /\ exec_pc = "end_of_step"
    /\ LET k == exec.it + exec.self.step_ckpt
           saved == IF k < exec.self.num_steps /\ k % exec.self.num_save_steps = 0
                    THEN save_model(exec.self, exec.model, exec.optimizer,
                                    exec.scheduler, k, exec.disk)
                    ELSE exec.disk
           after == [exec EXCEPT !.disk = saved, !.it = @ + 1, !.outputs = FALSE,
                                 !.loss = FALSE, !.found_inf = FALSE]
       IN  /\ exec' = after
           /\ exec_prev' = TrainingState(after)
           /\ exec_pc' = IF after.it < data_loader_len(exec.self.num_steps,
                                                       exec.self.step_ckpt)
                         THEN "forward" ELSE "done"
    /\ exec_trace' = <<>>
    /\ UNCHANGED outside_exec

\* The forward pass, the loss or the backward pass raises (362-376), at its
\* start or after it has had its effect; the exception leaves train_model_.
ExecRaise ==
    /\ exec_pc \in {"forward", "loss", "backward"}
    /\ \E late \in BOOLEAN :
          LET reached == IF ~late THEN exec
                         ELSE CASE exec_pc = "forward" -> forward_pass(exec)
                                [] exec_pc = "loss" -> compute_loss(exec)
                                [] OTHER -> loss_backward(exec)
          IN  exec' = [reached EXCEPT !.raised = exec_pc]
    /\ exec_pc' = "failed"
    /\ UNCHANGED <<exec_trace, exec_prev, outside_exec>>

NextExec ==
    \/ ExecForward \/ ExecLoss \/ ExecBackward \/ ExecUnscale \/ ExecClip
    \/ ExecOptimizerStep \/ ExecSchedulerStep \/ ExecScalerUpdate \/ ExecZeroGrad
    \/ ExecEndOfStep \/ ExecRaise

SpecExec == InitExec /\ [][NextExec]_vars

\* ------------------------------------------------- claims C19 and C20
\* The phases of a step as the claim orders and gates them.
ClaimedPhases(amp, clip) ==
    <<"forward", "loss", "backward">>
        \o (IF amp THEN <<"unscale">> ELSE <<>>)
        \o (IF clip THEN <<"clip">> ELSE <<>>)
        \o <<"optimizer_step", "scheduler_step">>
        \o (IF amp THEN <<"scaler_update">> ELSE <<>>)
        \o <<"zero_grad">>

IsPrefix(a, b) == Len(a) <= Len(b) /\ a = SubSeq(b, 1, Len(a))

\* C19: the phases of every training step occur in the order forward, loss,
\* backward, unscale, clip, optimizer step, schedule step, scaler update,
\* zero-grad; unscale and scaler update occur exactly when the precision
\* policy is on, clip exactly when a threshold is configured, every other
\* phase in every step.
C19_PhaseOrder ==
    LET claimed == ClaimedPhases(exec.self.use_amp, exec.self.clipping_value # {})
    IN  /\ IsPrefix(exec_trace, claimed)
        /\ exec_pc = "end_of_step" => exec_trace = claimed

\* The second step of a run with the precision policy on and a clipping
\* threshold has executed its nine phases.
C19_Witness ==
    /\ exec_pc = "end_of_step"
    /\ exec.it = 1
    /\ exec.self.use_amp /\ exec.self.clipping_value # {}
    /\ Len(exec_trace) = 9
    /\ exec.grads.accumulated = FALSE

\* C20: when the forward pass, the loss computation or the backward pass of a
\* step raises, the run has stopped with model parameters, optimizer state,
\* schedule state and stored checkpoint as the previous step left them.
C20_FatalLeavesState ==
    exec_pc = "failed" =>
        /\ exec.raised \in {"forward", "loss", "backward"}
        /\ TrainingState(exec) = exec_prev

\* The backward pass of the second step raised after it had accumulated
\* gradients; the checkpoint of the first step is on disk.
C20_Witness ==
    /\ exec_pc = "failed"
    /\ exec.raised = "backward"
    /\ exec.it = 1
    /\ exec.grads.accumulated
    /\ exec.disk.present /\ exec.disk.config.step_ckpt = 0
    /\ Len(exec.model) = 1

\* --------------------------------------------------------------- SpecLog
\* batch_loss += loss.item()/self.log_steps (401)
accumulate_loss(bl, loss, log_steps) == RatAdd(bl, Frac(loss, log_steps))

\* if (step) % self.log_steps == 0 (404)
logs_at(at_step, log_steps) == at_step % log_steps = 0

\* Trainer.__init__ without a checkpoint (108-235): step_ckpt = 0 (226).
InitLog ==
    /\ \E N \in 1..MaxLogInterval, T \in 1..MaxLogRunSteps, save \in 1..MaxLogInterval :
          log_self = [log_steps |-> N, num_steps |-> T, num_save_steps |-> save,
                      step_ckpt |-> 0]
    /\ log_pc = "constructed"
    /\ log_it = 0
    /\ log_batch_loss = <<0, 1>>
    /\ log_terms = <<>>
    /\ log_emitted = [present |-> FALSE]
    /\ log_saved = <<>>
    /\ log_run = 0
    /\ OutsideLogIdle

\* train_model_(dataset, self.num_steps, self.step_ckpt) up to the loop
\* (284-350): batch_loss = 0 (342).
LogTrainStart ==
    /\ log_pc = "constructed"
    /\ data_loader_len(log_self.num_steps, log_self.step_ckpt) > 0
    /\ log_batch_loss' = <<0, 1>>
    /\ log_terms' = <<>>
    /\ log_it' = 0
    /\ log_pc' = "loop"
    /\ UNCHANGED <<log_self, log_emitted, log_saved, log_run, outside_log>>

\* One iteration of the loop in the designated process, from the update of
\* batch_loss to the save (351-352, 400-422).
LogTrainStep ==
    /\ log_pc = "loop"
    /\ log_it < data_loader_len(log_self.num_steps, log_self.step_ckpt)
    /\ \E loss \in 1..MaxLogLoss :
          LET k == log_it + log_self.step_ckpt
              bl == accumulate_loss(log_batch_loss, loss, log_self.log_steps)
              logs == logs_at(k, log_self.log_steps)
              brk == k >= log_self.num_steps
          IN  /\ log_it' = log_it + 1
              /\ log_emitted' = IF logs /\ is_main_process
                                THEN [present |-> TRUE,
                                      loss |-> bl,
                                      step |-> k,
                                      terms |-> Append(log_terms, loss),
                                      run |-> log_run]
                                ELSE log_emitted
              /\ log_batch_loss' = IF logs THEN <<0, 1>> ELSE bl
              /\ log_terms' = IF logs THEN <<>> ELSE Append(log_terms, loss)
              /\ log_pc' = IF brk THEN "done" ELSE "loop"
              /\ log_saved' = IF ~brk /\ k % log_self.num_save_steps = 0
                              THEN <<k>>
                              ELSE log_saved
    /\ UNCHANGED <<log_self, log_run, outside_log>>

\* The data loader is exhausted: the for statement ends (351).
LogLoopEnd ==
    /\ log_pc = "loop"
    /\ log_it = data_loader_len(log_self.num_steps, log_self.step_ckpt)
    /\ log_pc' = "done"
    /\ UNCHANGED <<log_self, log_it, log_batch_loss, log_terms, log_emitted, log_saved,
                   log_run, outside_log>>

\* The process is stopped from outside between two iterations.
LogStop ==
    /\ log_pc = "loop"
    /\ log_pc' = "stopped"
    /\ UNCHANGED <<log_self, log_it, log_batch_loss, log_terms, log_emitted, log_saved,
                   log_run, outside_log>>

\* A new process: Trainer(..., load_checkpoint=True, ...): step_ckpt is the
\* step stored in config.pt (451, 527-535); batch_loss is a local of
\* train_model_ and does not survive the process.
LogResume ==
    /\ log_pc \in {"stopped", "done"}
    /\ log_saved # <<>>
    /\ log_run < MaxResumes
    /\ log_self' = [log_self EXCEPT !.step_ckpt = log_saved[1]]
    /\ log_pc' = "constructed"
    /\ log_it' = 0
    /\ log_batch_loss' = <<0, 1>>
    /\ log_terms' = <<>>
    /\ log_run' = log_run + 1
    /\ UNCHANGED <<log_emitted, log_saved, outside_log>>

NextLog == LogTrainStart \/ LogTrainStep \/ LogLoopEnd \/ LogStop \/ LogResume

SpecLog == InitLog /\ [][NextLog]_vars

\* ------------------------------------------------------------- claim C21
RECURSIVE SumSeq(_)
SumSeq(q) == IF q = <<>> THEN 0 ELSE q[1] + SumSeq(Tail(q))

\* C21 as stated: with logging interval N, every metric record the run loop
\* emits carries as loss the mean of the losses of exactly N training steps
\* (the steps since the previous record), the first record of a fresh run
\* and the first record after a resume included.
C21_Original ==
    log_emitted.present =>
        /\ Len(log_emitted.terms) = log_self.log_steps
        /\ log_emitted.loss = Frac(SumSeq(log_emitted.terms), Len(log_emitted.terms))

\* ------------------------------------------------------------- claim C22
\* The number of content tokens prepare_data keeps of record i.
KeptLen(i) == Min(RecLen(i), Window)

\* C22: for every record of every batch (shorter than, as long as, or longer
\* than the window), with c the number of content tokens kept: the padded row
\* holds the kept content at 1..c and the appended stop pad at c + 1; the
\* label at position c (the last kept content position) is that stop pad and
\* is not replaced by -100; the labels before c are the content tokens that
\* follow; every label from position c + 1 on (the stop pad's own position
\* and the padding after it) is -100. So the trained labels of a row are the
\* positions 1..c and exactly one of them, c, is the stop target.
C22_OneTrainedStopTarget ==
    prep_pc = "masked" =>
        \A r \in Rows :
            LET c == KeptLen(r)
                start == prepared.starts[r]
            IN  /\ c >= 1
                /\ SubSeq(prepared.pre_shift[r], 1, c)
                      = SubSeq(batch[r].input_ids, start + 1, start + c)
                /\ prepared.pre_shift[r][c + 1] = PadTokenId
                /\ loss_labels[r][c] = PadTokenId
                /\ loss_labels[r][c] # IgnoreIndex
                /\ \A i \in 1..(c - 1) :
                      loss_labels[r][i] = batch[r].input_ids[start + i + 1]
                /\ \A i \in (c + 1)..Len(loss_labels[r]) :
                      loss_labels[r][i] = IgnoreIndex
                /\ {i \in 1..Len(loss_labels[r]) : loss_labels[r][i] # IgnoreIndex}
                      = 1..c

\* A masked batch with a record longer than the window (5 tokens, window 4)
\* next to a shorter one (2 tokens): the long row's last label is the stop
\* pad, the short row has the stop pad at position 2 and -100 behind it.
C22_Witness ==
    /\ prep_pc = "masked"
    /\ Len(batch) = 2 /\ RecLen(1) = 5 /\ RecLen(2) = 2 /\ model_max_length = 4
    /\ prepared.starts[1] = 0
    /\ loss_labels[1] = <<2, 3, 4, PadTokenId>>
    /\ loss_labels[2] = <<2, PadTokenId, IgnoreIndex, IgnoreIndex>>

\* ------------------------------------------------------------- claim C23
\* The transition is train_model_ getting as far as dist.barrier() (347):
\* the trainer leaves "constructed" with its data loader built.
InvokesBarrier == pc = "constructed" /\ pc' # "constructed" /\ n_batches' > 0

\* C23 as stated: a barrier is invoked only by a process in which a
\* communication group has been established, and a trainer constructed in
\* single-process (cpu) mode gets past it to its first training step.
C23_Original ==
    [][InvokesBarrier => (dist_initialized /\ pc' = "loop")]_vars

\* ------------------------------------------------------------- claim C24
\* The next step of the process of rank p, whichever it is.
GroupProcess(p) ==
    /\ p \in Ranks
    /\ \/ GroupInitDistributed(p)
       \/ GroupConstructed(p)
       \/ GroupSetup(p)
       \/ GroupArrive(p)
       \/ GroupEnterLoop(p)
       \/ GroupForward(p)
       \/ GroupFinishStep(p)
       \/ GroupLoopEnd(p)

\* Every process of the group is an operating-system process of its own that
\* runs the constructor and train_model_ as straight-line code: a process
\* whose next statement can run (its collective has been joined by all, or it
\* is not in a collective) does run it.
FairSpecGroup ==
    /\ SpecGroup
    /\ \A p \in 0..(MaxProcs - 1) : WF_vars(GroupProcess(p))

\* The process has entered a collective and has not returned from it.
InCollective(p) == proc_pc[p] \in {"barrier_54", "barrier_347", "backward"}

\* The step indices the process has executed so far, in order.
StepsExecuted(p) == [i \in 1..proc_it[p] |-> group_cfg.step_ckpt + i - 1]

\* The step indices of the whole run: step_ckpt .. num_steps - 1.
RunSteps ==
    [i \in 1..(group_cfg.num_steps - group_cfg.step_ckpt) |-> group_cfg.step_ckpt + i - 1]

AllGroupDone == \A p \in DOMAIN proc_pc : proc_pc[p] = "done"

\* C24: in a group of N processes with the same total_steps and resume step,
\* every process executes the same sequence of step indices (a prefix of
\* step_ckpt .. num_steps - 1 at any time, all of it when it leaves the loop);
\* every collective a process has returned from (the two barriers and the
\* gradient synchronization of every step) has been entered by all N
\* processes, and a process inside a collective is at most one collective
\* ahead of any peer; no process fails; and under fairness a process waiting
\* in a collective always gets out of it, whatever saving and logging the
\* designated process does in between, and every process leaves the run loop.
C24_LockStep ==
    /\ [](\A p \in DOMAIN proc_pc :
            /\ proc_pc[p] # "failed"
            /\ IsPrefix(StepsExecuted(p), RunSteps)
            /\ proc_pc[p] = "done" => StepsExecuted(p) = RunSteps
            /\ \A q \in DOMAIN proc_pc :
                  /\ ~InCollective(p) => proc_coll[q] >= proc_coll[p]
                  /\ InCollective(p) => proc_coll[q] >= proc_coll[p] - 1)
    /\ [](AllGroupDone =>
            \A p \in DOMAIN proc_pc :
                proc_coll[p] = 2 + group_cfg.num_steps - group_cfg.step_ckpt)
    /\ \A p \in 0..(MaxProcs - 1) :
          (p \in DOMAIN proc_pc /\ InCollective(p)) ~> (p \in DOMAIN proc_pc /\ ~InCollective(p))
    /\ <>AllGroupDone

\* A peer has finished step 0 and waits in the gradient synchronization of
\* step 1 while the designated process has not yet returned from the one of
\* step 0, after which it logs and saves.
C24_Witness ==
    /\ group_cfg.present
    /\ group_cfg.step_ckpt = 0
    /\ proc_pc[0] = "backward" /\ proc_it[0] = 0
    /\ \E p \in Ranks :
          /\ p # 0
          /\ proc_pc[p] = "backward" /\ proc_it[p] = 1
          /\ ~collective_done(proc_coll, Ranks, p)

====
